---- MODULE Spec2Model ----
(***************************************************************************)
(* Model of the synchronous SNMPv2c session of rust-snmp (src/src/sync.rs). *)
(* A session owns a primary UDP socket, a community string and a wrapping  *)
(* i32 request-id counter.  get, getnext, getbulk and set are one blocking *)
(* call each; get_all_responses blocks in a receive loop on a socket of    *)
(* its own and is modelled step by step (entry, loop iterations, clock).   *)
(***************************************************************************)
EXTENDS Integers, Sequences, FiniteSets, TLC

\* ---------------------------------------------------------------- bounds
MaxOps == 3          \* operations invoked on the session in one behaviour
MaxInbox == 1        \* datagrams queued on the primary socket between calls
MaxReplies == 2      \* datagrams collected by one get_all_responses call
MaxPieces == 3       \* dot-separated pieces of a string given to the OID helper

\* ------------------------------------------------------- i32 arithmetic
MaxI32 == 2147483647
MinI32 == (-MaxI32) - 1
Limb == 65536
HalfLimb == 32768

\* (variant: saturating instead of wrapping addition)
WrapAddSaturating(x, n) ==
    IF x > MaxI32 - n THEN MaxI32 ELSE x + n

\* Wrapping<i32> addition of a small non-negative n, done on two 16-bit
\* limbs of the two's-complement representation (no intermediate value
\* leaves the 32-bit range).
WrapAdd(x, n) ==
    LET lo    == x % Limb
        hi    == (x - lo) \div Limb
        sum   == lo + n
        lo2   == sum % Limb
        carry == sum \div Limb
        hi2   == ((hi + carry + HalfLimb) % Limb) - HalfLimb
    IN  hi2 * Limb + lo2

\* Wrapping subtraction of 1 (used by the environment to forge stale ids).
WrapPred(x) == IF x = MinI32 THEN MaxI32 ELSE x - 1

\* --------------------------------------------------------- value spaces
Communities == {"public", "private"}
Hosts == {"agent", "other"}
MsgTypes == {"Response", "GetRequest"}
AsnErrors == {"AsnEof"}
SupportedValues == {"Integer", "Null"}
ResponseOnlyValues == {"NoSuchObject", "NoSuchInstance", "EndOfMibView"}
ValueKinds == SupportedValues \cup ResponseOnlyValues
Seeds == {0, MaxI32 - 1}

\* Broadcast windows, in clock ticks (Duration::ZERO included).
Windows == {0, 1, 2}

\* Option<Duration>: None, or Some(d) with d in clock ticks.
None == [some |-> FALSE, d |-> 0]
Some(d) == [some |-> TRUE, d |-> d]

\* Option<S> of the builder's community.
NoCommunity == [some |-> FALSE, c |-> "none"]
SomeCommunity(c) == [some |-> TRUE, c |-> c]

\* SocketAddr of the agent the session talks to.
Destinations == {[ip |-> "agent", port |-> 161, family |-> "V4"]}

\* The bytes of a datagram, abstracted to what the decoder extracts from
\* them: whether they parse (asn) and, if so, the PDU tag, request-id and
\* community they carry.
Bytes(asn, mtype, rid, comm) ==
    [asn |-> asn, mtype |-> mtype, req_id |-> rid, community |-> comm]

Garbage(e) == Bytes(e, "none", 0, "none")

DataWithIds(ids) ==
    { Bytes("ok", t, i, c) : t \in MsgTypes, i \in ids, c \in Communities }
    \cup { Garbage(e) : e \in AsnErrors }

\* A datagram on a socket's receive queue: source SocketAddr and payload.
Sources == { [ip |-> h, port |-> 161] : h \in Hosts }

PacketsWithIds(ids) == [src : Sources, data : DataWithIds(ids)]

NoPacket == [src |-> [ip |-> "none", port |-> 0], data |-> Garbage("none")]

\* ------------------------------------------------------------- results
NoPdu == [message_type |-> "none", req_id |-> 0, community |-> "none"]

Ok(pdu) == [ok |-> TRUE, err |-> "none", pdu |-> pdu, items |-> <<>>]
OkItems(items) == [ok |-> TRUE, err |-> "none", pdu |-> NoPdu, items |-> items]
Err(e) == [ok |-> FALSE, err |-> e, pdu |-> NoPdu, items |-> <<>>]
Pending == [ok |-> FALSE, err |-> "pending", pdu |-> NoPdu, items |-> <<>>]

\* ------------------------------------------------- PDU builder / parser
\* (crate::pdu and crate::handle_response: sibling modules of sync.rs)
Built(data) == [ok |-> TRUE, err |-> "none", data |-> data]
BuildErr(e) == [ok |-> FALSE, err |-> e, data |-> Garbage("none")]

build_get(comm, rid) == Built(Bytes("ok", "GetRequest", rid, comm))

build_getnext(comm, rid) == Built(Bytes("ok", "GetNextRequest", rid, comm))

build_getbulk(comm, rid) == Built(Bytes("ok", "GetBulkRequest", rid, comm))

build_set(comm, rid, values) ==
    IF \E i \in 1..Len(values) : values[i] \notin SupportedValues
    THEN BuildErr("UnsupportedValueType")
    ELSE Built(Bytes("ok", "SetRequest", rid, comm))

\* SnmpPdu::from_bytes: an Asn* error for bytes that do not parse, else the
\* PDU with the tag, request-id and community found in the bytes.
from_bytes(data) ==
    IF data.asn # "ok"
    THEN Err(data.asn)
    ELSE Ok([message_type |-> data.mtype, req_id |-> data.req_id,
             community |-> data.community])

handle_response(rid, comm, data) ==
    LET resp == from_bytes(data)
    IN  IF ~resp.ok THEN resp
        ELSE IF resp.pdu.message_type # "Response" THEN Err("AsnWrongType")
        ELSE IF resp.pdu.req_id # rid THEN Err("RequestIdMismatch")
        ELSE IF resp.pdu.community # comm THEN Err("CommunityMismatch")
        ELSE resp

\* ------------------------------------------------- utils.rs: OID helper
\* A &str is a sequence of one-character strings.
DigitChars == <<"0", "1", "2", "3", "4", "5", "6", "7", "8", "9">>

IsDigit(c) == \E i \in 1..Len(DigitChars) : DigitChars[i] = c

\* char::to_digit(10) of a decimal digit.
to_digit(c) == (CHOOSE i \in 1..Len(DigitChars) : DigitChars[i] = c) - 1

\* A u32 as two 16-bit limbs (the upper half of its range has no signed
\* 32-bit representation).  U32(n) is the u32 with value n, 0 <= n < 2^31.
U32(n) == [hi |-> n \div Limb, lo |-> n % Limb]

\* acc.checked_mul(10) followed by checked_add(d): ok unless > u32::MAX.
checked_mul_add(acc, d) ==
    LET lo == acc.lo * 10 + d
        hi == acc.hi * 10 + (lo \div Limb)
    IN  [ok |-> hi < Limb, val |-> [hi |-> hi % Limb, lo |-> lo % Limb]]

ParseOk(v) == [ok |-> TRUE, err |-> "none", val |-> v]
ParseErr(e) == [ok |-> FALSE, err |-> e, val |-> U32(0)]

\* The digit loop of <u32 as FromStr>::from_str, left to right.
RECURSIVE parse_digits(_, _)
parse_digits(s, acc) ==
    IF s = <<>> THEN ParseOk(acc)
    ELSE IF ~IsDigit(Head(s))
    THEN ParseErr("invalid digit found in string")
    ELSE LET m == checked_mul_add(acc, to_digit(Head(s)))
         IN  IF ~m.ok THEN ParseErr("number too large to fit in target type")
             ELSE parse_digits(Tail(s), m.val)

\* s.parse::<u32>().map_err(|e| e.to_string()): an optional '+', then
\* one or more decimal digits; no '-' for an unsigned type.
parse_u32(s) ==
    IF s = <<>> THEN ParseErr("cannot parse integer from empty string")
    ELSE IF Len(s) = 1 /\ Head(s) \in {"+", "-"}
    THEN ParseErr("invalid digit found in string")
    ELSE parse_digits(IF Head(s) = "+" THEN Tail(s) ELSE s, U32(0))

\* (variant: str::split_terminator, which drops a trailing empty piece)
RECURSIVE split_terminator(_)
split_terminator(s) ==
    IF s = <<>> THEN <<>>
    ELSE LET rest == split_terminator(Tail(s))
         IN  IF Head(s) = "." THEN << <<>> >> \o rest
             ELSE IF rest = <<>> THEN << <<Head(s)>> >>
             ELSE << <<Head(s)>> \o Head(rest) >> \o Tail(rest)

\* str::split('.'): the pieces between the dots, empty ones included;
\* the empty string gives one empty piece.
RECURSIVE split(_)
split(s) ==
    IF s = <<>> THEN << <<>> >>
    ELSE LET rest == split(Tail(s))
         IN  IF Head(s) = "." THEN << <<>> >> \o rest
             ELSE << <<Head(s)>> \o Head(rest) >> \o Tail(rest)

\* Result<Vec<u32>, String>
OidOk(v) == [ok |-> TRUE, err |-> "none", vec |-> v]
OidErr(e) == [ok |-> FALSE, err |-> e, vec |-> <<>>]
OidPending == [ok |-> FALSE, err |-> "pending", vec |-> <<>>]

\* .map(parse).collect::<Result<Vec<u32>, _>>(): the values in order, or
\* the first error.
RECURSIVE collect(_)
collect(pieces) ==
    IF pieces = <<>> THEN OidOk(<<>>)
    ELSE LET r == parse_u32(Head(pieces))
         IN  IF ~r.ok THEN OidErr(r.err)
             ELSE LET rest == collect(Tail(pieces))
                  IN  IF rest.ok THEN OidOk(<<r.val>> \o rest.vec) ELSE rest

\* (variant: the trailing zero is pushed unconditionally)
oid_str_to_vec32_always_push(oid_str) ==
    LET oid2 == IF oid_str # <<>> /\ Head(oid_str) = "." THEN Tail(oid_str)
                ELSE oid_str
        res  == collect(split(oid2))
    IN  IF res.ok THEN OidOk(Append(res.vec, U32(0))) ELSE res

\* oid_str_to_vec32
oid_str_to_vec32(oid_str) ==
    LET oid2 == IF oid_str # <<>> /\ Head(oid_str) = "." THEN Tail(oid_str)
                ELSE oid_str
        res  == collect(split(oid2))
    IN  IF res.ok
        THEN IF res.vec = <<>> \/ res.vec[Len(res.vec)] # U32(0)
             THEN OidOk(Append(res.vec, U32(0)))
             ELSE res
        ELSE res

\* The strings the helper is applied to, written as their dot-separated
\* pieces.  A piece carries its text, what it is, and (for a numeral) the
\* number it denotes.
Piece(text, kind, val) == [text |-> text, kind |-> kind, val |-> val]

Numeral(n) == Piece(<<DigitChars[n + 1]>>, "digits", U32(n))

Pieces ==
    { Numeral(0), Numeral(1),
      Piece(<<"0", "0">>, "digits", U32(0)),
      Piece(<<"4", "2", "9", "4", "9", "6", "7", "2", "9", "5">>, "digits",
            [hi |-> Limb - 1, lo |-> Limb - 1]),
      Piece(<<"+", "6">>, "plus", U32(6)),
      Piece(<<>>, "empty", U32(0)),
      Piece(<<"x">>, "invalid", U32(0)),
      Piece(<<"-", "1">>, "negative", U32(0)),
      Piece(<<"4", "2", "9", "4", "9", "6", "7", "2", "9", "6">>, "toobig",
            U32(0)) }

\* The strings of the doc test: "1.3.6", ".1.3.6", "1.3.6.0", "1.3.6.".
DocTests ==
    { <<Numeral(1), Numeral(3), Numeral(6)>>,
      <<Piece(<<>>, "empty", U32(0)), Numeral(1), Numeral(3), Numeral(6)>>,
      <<Numeral(1), Numeral(3), Numeral(6), Numeral(0)>>,
      <<Numeral(1), Numeral(3), Numeral(6), Piece(<<>>, "empty", U32(0))>> }

OidInputs ==
    UNION { [1..n -> Pieces] : n \in 1..MaxPieces } \cup DocTests

\* The string whose pieces are ps.
RECURSIVE Dotted(_)
Dotted(ps) ==
    IF Len(ps) = 1 THEN ps[1].text
    ELSE ps[1].text \o <<".">> \o Dotted(Tail(ps))

\* ------------------------------------------------------------- session
\* SyncSession::builder: the defaults, and each option overridden alone.
builder(dest) ==
    [destination |-> dest, community |-> NoCommunity, timeout |-> None,
     req_id |-> 0]

Configs ==
    UNION { LET b == builder(dest)
            IN  {b} \cup { [b EXCEPT !.community = SomeCommunity("private")],
                           [b EXCEPT !.timeout = Some(1)] }
                    \cup { [b EXCEPT !.req_id = r] : r \in Seeds }
            : dest \in Destinations }

VARIABLES
    destination,   \* SyncSession.destination
    socket,        \* SyncSession.socket: options of the primary socket
    community,     \* SyncSession.community
    req_id,        \* SyncSession.req_id (Wrapping<i32>)
    inbox,         \* receive queue of the primary socket
    cfg,           \* the arguments the session was constructed with (history)
    ids,           \* request-ids captured by the calls so far (history)
    call,          \* trace of the latest call (history)
    pc,            \* "idle", or "collect" inside get_all_responses' loop
    bsock,         \* get_all_responses: its own socket
    window,        \* get_all_responses: the timeout argument
    elapsed,       \* get_all_responses: ts1.elapsed(), saturating
    vec1,          \* get_all_responses: the datagrams collected
    oid,           \* oid_str_to_vec32: the string it is given
    oid_pieces,    \* the pieces that string was written from (history)
    oid_result     \* oid_str_to_vec32: what it returned

vars == <<destination, socket, community, req_id, inbox, cfg, ids, call,
          pc, bsock, window, elapsed, vec1, oid,
          oid_pieces, oid_result>>

session == <<destination, socket, community>>
collector == <<bsock, window, elapsed, vec1>>
helper == <<oid, oid_pieces, oid_result>>

NoSocket == [open |-> FALSE, local |-> "none", read_timeout |-> None,
             broadcast |-> FALSE]

\* create_socket: bind the wildcard address of the destination's family,
\* then set the read timeout (std rejects Some(0)) and the broadcast flag.
\* bindOk is the outcome of the system calls.
create_socket(sock_addr, timeout, broadcast, bindOk) ==
    LET local == IF sock_addr.family = "V4" THEN "0.0.0.0" ELSE "::"
    IN  IF ~bindOk \/ (timeout.some /\ timeout.d = 0)
        THEN [ok |-> FALSE, sock |-> NoSocket]
        ELSE [ok |-> TRUE,
              sock |-> [open |-> TRUE, local |-> local,
                        read_timeout |-> timeout, broadcast |-> broadcast]]

\* (variant: the counter starts at 0 whatever seed was given)
new_seed_ignored(dest, comm, timeout, starting_req_id) ==
    [destination |-> dest,
     socket |-> create_socket(dest, timeout, FALSE, TRUE).sock,
     community |-> IF comm.some THEN comm.c ELSE "public",
     req_id |-> 0]

\* SyncSession::new
new(dest, comm, timeout, starting_req_id) ==
    [destination |-> dest,
     socket |-> create_socket(dest, timeout, FALSE, TRUE).sock,
     community |-> IF comm.some THEN comm.c ELSE "public",
     req_id |-> starting_req_id]

ResponseItemInt(pkt) == [address |-> pkt.src.ip, data |-> pkt.data]
NoItem == ResponseItemInt(NoPacket)

\* (variant: a datagram that is not from the destination is an error)
recv_one_from_destination(q, recvOk) ==
    IF recvOk /\ q # <<>> /\ Head(q).src.ip = destination.ip
    THEN [ok |-> TRUE, err |-> "none", item |-> ResponseItemInt(Head(q)),
          pkt |-> Head(q), rest |-> Tail(q)]
    ELSE [ok |-> FALSE, err |-> "ReceiveError", item |-> NoItem,
          pkt |-> NoPacket, rest |-> IF q = <<>> THEN q ELSE Tail(q)]

\* recv_one on a socket whose queue is q; recvOk = FALSE is a socket error,
\* an empty queue is a read timeout.
recv_one(q, recvOk) ==
    IF recvOk /\ q # <<>>
    THEN [ok |-> TRUE, err |-> "none", item |-> ResponseItemInt(Head(q)),
          pkt |-> Head(q), rest |-> Tail(q)]
    ELSE [ok |-> FALSE, err |-> "ReceiveError", item |-> NoItem,
          pkt |-> NoPacket, rest |-> q]

\* A receive on a socket without read timeout never returns while nothing
\* is queued and no error occurs.
Blocks(sock, q, recvOk) == ~sock.read_timeout.some /\ q = <<>> /\ recvOk

\* The agent's reply (if any) joins the queue after the request went out.
Arrive(q, reply) == IF reply = NoPacket THEN q ELSE Append(q, reply)

Datagram(sock, to, data) == [sock |-> sock, to |-> to, data |-> data]

\* (variant: what is queued on the socket is dropped before the send)
send_and_recv_drain(pdu, sendOk, reply, recvOk) ==
    IF sendOk
    THEN LET r == recv_one(Arrive(<<>>, reply), recvOk)
         IN  [res |-> r, sent |-> <<Datagram("primary", destination, pdu)>>,
              recvs |-> 1]
    ELSE [res |-> [ok |-> FALSE, err |-> "SendError", item |-> NoItem,
                   pkt |-> NoPacket, rest |-> inbox],
          sent |-> <<>>, recvs |-> 0]

\* (variant: after a failed receive the request is sent and awaited again)
send_and_recv_retransmit(pdu, sendOk, reply, recvOk) ==
    LET dg == Datagram("primary", destination, pdu)
        r  == recv_one(Arrive(inbox, reply), recvOk)
    IN  IF sendOk
        THEN IF r.ok THEN [res |-> r, sent |-> <<dg>>, recvs |-> 1]
             ELSE [res |-> r, sent |-> <<dg, dg>>, recvs |-> 2]
        ELSE [res |-> [ok |-> FALSE, err |-> "SendError", item |-> NoItem,
                       pkt |-> NoPacket, rest |-> inbox],
              sent |-> <<>>, recvs |-> 0]

\* (variant: the receive is attempted whether or not the send succeeded)
send_and_recv_ignore_send(pdu, sendOk, reply, recvOk) ==
    LET r == recv_one(IF sendOk THEN Arrive(inbox, reply) ELSE inbox, recvOk)
    IN  [res |-> r,
         sent |-> IF sendOk THEN <<Datagram("primary", destination, pdu)>>
                  ELSE <<>>,
         recvs |-> 1]

\* send_and_recv on the primary socket.  The trace fields record what the
\* call did: datagrams sent, receives attempted, packet read.
send_and_recv(pdu, sendOk, reply, recvOk) ==
    IF sendOk
    THEN LET r == recv_one(Arrive(inbox, reply), recvOk)
         IN  [res |-> r, sent |-> <<Datagram("primary", destination, pdu)>>,
              recvs |-> 1]
    ELSE [res |-> [ok |-> FALSE, err |-> "SendError", item |-> NoItem,
                   pkt |-> NoPacket, rest |-> inbox],
          sent |-> <<>>, recvs |-> 0]

\* (variant: the request-id is compared before the message type)
set_validate_id_before_type(rid, comm, data) ==
    LET resp == from_bytes(data)
    IN  IF ~resp.ok THEN resp
        ELSE IF resp.pdu.req_id # rid THEN Err("RequestIdMismatch")
        ELSE IF resp.pdu.message_type # "Response" THEN Err("AsnWrongType")
        ELSE IF resp.pdu.community # comm THEN Err("CommunityMismatch")
        ELSE resp

\* (variant: the request-id is not compared)
set_validate_no_id(rid, comm, data) ==
    LET resp == from_bytes(data)
    IN  IF ~resp.ok THEN resp
        ELSE IF resp.pdu.message_type # "Response" THEN Err("AsnWrongType")
        ELSE IF resp.pdu.community # comm THEN Err("CommunityMismatch")
        ELSE resp

\* (variant: the community is compared before the request-id)
set_validate_community_first(rid, comm, data) ==
    LET resp == from_bytes(data)
    IN  IF ~resp.ok THEN resp
        ELSE IF resp.pdu.message_type # "Response" THEN Err("AsnWrongType")
        ELSE IF resp.pdu.community # comm THEN Err("CommunityMismatch")
        ELSE IF resp.pdu.req_id # rid THEN Err("RequestIdMismatch")
        ELSE resp

\* (variant: the community is not compared)
set_validate_no_community(rid, comm, data) ==
    LET resp == from_bytes(data)
    IN  IF ~resp.ok THEN resp
        ELSE IF resp.pdu.message_type # "Response" THEN Err("AsnWrongType")
        ELSE IF resp.pdu.req_id # rid THEN Err("RequestIdMismatch")
        ELSE resp

\* The validation written out in set (same checks as handle_response).
set_validate(rid, comm, data) ==
    LET resp == from_bytes(data)
    IN  IF ~resp.ok THEN resp
        ELSE IF resp.pdu.message_type # "Response" THEN Err("AsnWrongType")
        ELSE IF resp.pdu.req_id # rid THEN Err("RequestIdMismatch")
        ELSE IF resp.pdu.community # comm THEN Err("CommunityMismatch")
        ELSE resp

Validate(op, rid, comm, data) ==
    IF op = "set" THEN set_validate(rid, comm, data)
    ELSE handle_response(rid, comm, data)

\* What may reach the primary socket after a request with id rid went
\* out: any source, well-formed with any tag, community and the issued or
\* the previous id, or bytes that do not parse.
Replies(rid) == PacketsWithIds({rid, WrapPred(rid)})

\* The agent's own reply to the request with id rid.
Genuine(rid) ==
    [src |-> [ip |-> destination.ip, port |-> destination.port],
     data |-> Bytes("ok", "Response", rid, community)]

\* What may reach the broadcast socket: the reply of either host, and from
\* the other host a reply with the previous id, with another community,
\* or bytes that do not parse.
Probes(rid) ==
    { [src |-> s, data |-> Bytes("ok", "Response", rid, community)] : s \in Sources }
    \cup { [src |-> [ip |-> "other", port |-> 161], data |-> d] :
             d \in { Bytes("ok", "Response", WrapPred(rid), community),
                     Bytes("ok", "Response", rid, "other"),
                     Garbage("AsnEof") } }

NoNetwork == [sendOk |-> TRUE, recvOk |-> TRUE, reply |-> NoPacket]

Trace(op, arg, rid, sent, recvs, rsock, decodes, pkt, result) ==
    [op |-> op, arg |-> arg, req_id |-> rid, sent |-> sent, recvs |-> recvs,
     rsock |-> rsock, decodes |-> decodes, pkt |-> pkt, result |-> result,
     \* what the call was given: build result, system-call outcomes, window
     built |-> TRUE, env |-> NoNetwork, bindOk |-> TRUE, window |-> 0,
     \* get_all_responses: why the loop ended, the time that was left of
     \* the window then, the datagrams it kept
     exit |-> "none", left |-> 0, collected |-> <<>>]

NoCall == Trace("none", <<>>, 0, <<>>, 0, "none", 0, NoPacket, Pending)

\* (variant: the build result is looked at after the exchange)
OutcomeBuildCheckedLate(op, arg, rid, b, sr) ==
    IF ~sr.res.ok \/ ~b.ok
    THEN Trace(op, arg, rid, sr.sent, sr.recvs,
               IF sr.recvs > 0 THEN "primary" ELSE "none", 0, NoPacket,
               Err(IF ~sr.res.ok THEN sr.res.err ELSE b.err))
    ELSE Trace(op, arg, rid, sr.sent, sr.recvs, "primary", 1, sr.res.pkt,
               Validate(op, rid, community, sr.res.item.data))

\* What a request call did and returned, given the build result b and the
\* outcome sr of send_and_recv: `build(..)?` returns before anything is
\* sent, `send_and_recv(..)?` returns before anything is decoded.
Outcome(op, arg, rid, b, sr) ==
    IF ~b.ok
    THEN Trace(op, arg, rid, <<>>, 0, "none", 0, NoPacket, Err(b.err))
    ELSE IF ~sr.res.ok
    THEN Trace(op, arg, rid, sr.sent, sr.recvs,
               IF sr.recvs > 0 THEN "primary" ELSE "none", 0, NoPacket,
               Err(sr.res.err))
    ELSE Trace(op, arg, rid, sr.sent, sr.recvs, "primary", 1, sr.res.pkt,
               Validate(op, rid, community, sr.res.item.data))

\* What the network does around one request call: whether the send and
\* the receive system calls succeed, and the datagram (if any) that reaches
\* the socket after the request went out.  A reply that is not read at
\* once (something is queued before it, or the receive fails) is the
\* agent's own.
Scenarios(rid) ==
    { [sendOk |-> FALSE, recvOk |-> TRUE, reply |-> NoPacket] }
    \cup { [sendOk |-> TRUE, recvOk |-> FALSE, reply |-> r] :
             r \in {NoPacket, Genuine(rid)} }
    \cup { [sendOk |-> TRUE, recvOk |-> TRUE, reply |-> r] :
             r \in IF inbox = <<>> THEN Replies(rid) \cup {NoPacket}
                   ELSE {NoPacket, Genuine(rid)} }

\* The body shared by get, getnext, getbulk and set: capture and advance
\* the request-id, build, send_and_recv, validate.
Request(op, arg, build, net) ==
    LET rid == req_id
        q   == Arrive(inbox, net.reply)
        sr  == send_and_recv(build.data, net.sendOk, net.reply, net.recvOk)
        out == Outcome(op, arg, rid, build, sr)
    IN  /\ pc = "idle"
        /\ Len(ids) < MaxOps
        /\ Len(q) <= MaxInbox + 1
        /\ out.recvs > 0 => ~Blocks(socket, q, net.recvOk)
        /\ req_id' = WrapAdd(req_id, 1)
        /\ ids' = Append(ids, rid)
        /\ inbox' = IF out.recvs > 0 THEN sr.res.rest ELSE inbox
        /\ call' = [out EXCEPT !.built = build.ok, !.env = net]
        /\ UNCHANGED <<session, cfg, pc, collector, helper>>

SetInputs ==
    { <<"Integer">>, <<"Null", "Integer">> }
    \cup { <<k>> : k \in ResponseOnlyValues }
    \cup { <<"Integer", "NoSuchInstance">> }

get ==
    \E net \in Scenarios(req_id) :
        Request("get", <<>>, build_get(community, req_id), net)

getnext ==
    \E net \in Scenarios(req_id) :
        Request("getnext", <<>>, build_getnext(community, req_id), net)

getbulk ==
    \E net \in Scenarios(req_id) :
        Request("getbulk", <<>>, build_getbulk(community, req_id), net)

set ==
    \E values \in SetInputs :
        LET b == build_set(community, req_id, values)
        IN  \E net \in IF b.ok THEN Scenarios(req_id) ELSE {NoNetwork} :
                Request("set", values, b, net)

\* ---------------------------------------------------- get_all_responses
\* (variant: the elapsed time is not looked at)
LoopBreakOnErrorOnly(response, el, timeout) == ~response.ok

\* (variant: the loop goes on until the elapsed time exceeds the window)
LoopBreakAfterWindow(response, el, timeout) == ~response.ok \/ el > timeout

\* The loop's exit test: `response.is_err() || ts1.elapsed() >= timeout`.
LoopBreak(response, el, timeout) == ~response.ok \/ el >= timeout

\* (variant: the first rejected datagram ends the parsing)
RECURSIVE parse_responses_until_error(_, _, _)
parse_responses_until_error(v, rid, comm) ==
    IF v = <<>> THEN <<>>
    ELSE LET item == Head(v)
             r1   == handle_response(rid, comm, item.data)
         IN  IF r1.ok
             THEN <<[address |-> item.address, data |-> r1.pdu]>>
                  \o parse_responses_until_error(Tail(v), rid, comm)
             ELSE <<>>

\* "parsing to SnmpPdu": keep what handle_response accepts, in order, with
\* the address of its own datagram; skip the rest.
RECURSIVE parse_responses(_, _, _)
parse_responses(v, rid, comm) ==
    IF v = <<>> THEN <<>>
    ELSE LET item == Head(v)
             r1   == handle_response(rid, comm, item.data)
             rest == parse_responses(Tail(v), rid, comm)
         IN  IF r1.ok
             THEN <<[address |-> item.address, data |-> r1.pdu]>> \o rest
             ELSE rest

\* (variant: the receive error that ended the loop is returned)
gar_return_receive_error(response, v, rid, comm) ==
    IF ~response.ok THEN Err("ReceiveError")
    ELSE OkItems(parse_responses(v, rid, comm))

\* What get_all_responses returns once the loop has ended with `response`:
\* the receive error is not propagated.
gar_return(response, v, rid, comm) == OkItems(parse_responses(v, rid, comm))

\* (variant: the session's socket is reconfigured and used)
gar_socket_reuse_primary(primary, dest, timeout, bindOk) ==
    LET sock == [primary EXCEPT !.read_timeout = Some(timeout),
                                !.broadcast = TRUE]
    IN  IF ~bindOk \/ timeout = 0
        THEN [ok |-> FALSE, sock |-> NoSocket, primary |-> primary]
        ELSE [ok |-> TRUE, sock |-> sock, primary |-> sock]

\* The socket get_all_responses works on, and the session's socket as the
\* call leaves it: a new socket is created, self.socket is not touched.
gar_socket(primary, dest, timeout, bindOk) ==
    LET cs == create_socket(dest, Some(timeout), TRUE, bindOk)
    IN  [ok |-> cs.ok, sock |-> cs.sock, primary |-> primary]

\* Entry of get_all_responses up to `ts1 = Instant::now()`.
GarStart(w, bindOk, sendOk) ==
    LET rid == req_id
        cs  == gar_socket(socket, destination, w, bindOk)
        b   == build_get(community, rid)
        ret(sent, e) ==
            [Trace("get_all_responses", <<>>, rid, sent, 0, "none", 0,
                   NoPacket, e)
             EXCEPT !.env = [NoNetwork EXCEPT !.sendOk = sendOk],
                    !.bindOk = bindOk, !.window = w]
        out == <<Datagram("broadcast", destination, b.data)>>
    IN  /\ pc = "idle"
        /\ Len(ids) < MaxOps
        /\ ~cs.ok => sendOk       \* an input that cannot matter is fixed
        /\ req_id' = WrapAdd(req_id, 1)
        /\ ids' = Append(ids, rid)
        /\ IF ~cs.ok
           THEN /\ call' = ret(<<>>, Err("SocketError"))
                /\ UNCHANGED <<pc, collector>>
           ELSE IF ~b.ok
           THEN /\ call' = ret(<<>>, Err(b.err))
                /\ UNCHANGED <<pc, collector>>
           ELSE IF ~sendOk
           THEN /\ call' = ret(<<>>, Err("SendError"))
                /\ UNCHANGED <<pc, collector>>
           ELSE /\ call' = ret(out, Pending)
                /\ pc' = "collect"
                /\ bsock' = cs.sock
                /\ window' = w
                /\ elapsed' = 0
                /\ vec1' = <<>>
        /\ socket' = cs.primary
        /\ UNCHANGED <<destination, community, cfg, inbox, helper>>

\* One iteration of the receive loop; on exit, the parsing and the return.
\* A read timeout (nothing queued, no error) can only be reported once the
\* socket's read timeout, which is the window, has run out.
GarRecv(pkt, recvOk) ==
    LET response == recv_one(Arrive(<<>>, pkt), recvOk)
    IN  /\ pc = "collect"
        /\ (pkt = NoPacket /\ recvOk) => elapsed >= window
        /\ IF LoopBreak(response, elapsed, window)
           THEN /\ pc' = "idle"
                /\ bsock' = NoSocket
                /\ vec1' = <<>>
                /\ window' = 0
                /\ elapsed' = 0
                /\ call' = [call EXCEPT
                              !.recvs = Len(vec1) + 1,
                              !.rsock = "broadcast",
                              !.decodes = Len(vec1),
                              !.exit = IF response.ok THEN "window"
                                       ELSE "recv_error",
                              !.left = window - elapsed,
                              !.result = gar_return(response, vec1,
                                                    call.req_id, community)]
           ELSE /\ Len(vec1) < MaxReplies
                /\ vec1' = Append(vec1, response.item)
                /\ call' = [call EXCEPT !.recvs = Len(vec1'),
                                        !.rsock = "broadcast",
                                        !.collected = Append(@, response.pkt)]
                /\ UNCHANGED <<pc, bsock, window, elapsed>>
        /\ UNCHANGED <<session, cfg, req_id, ids, inbox, helper>>

get_all_responses ==
    \/ \E w \in Windows, bindOk \in BOOLEAN, sendOk \in BOOLEAN :
           GarStart(w, bindOk, sendOk)
    \/ \E recvOk \in BOOLEAN, pkt \in Probes(call.req_id) \cup {NoPacket} :
           GarRecv(pkt, recvOk)

\* The clock: time passes while get_all_responses sits in its loop.
Tick ==
    /\ pc = "collect"
    /\ elapsed < window
    /\ elapsed' = elapsed + 1
    /\ UNCHANGED <<session, cfg, req_id, ids, inbox, call, pc, bsock, window, vec1,
                   helper>>

\* The agent's reply to the previous request reaches the primary socket
\* late, outside the call that sent the request from that socket.
Deliver ==
    /\ pc = "idle"
    /\ call.sent # <<>>
    /\ call.sent[1].sock = "primary"
    /\ call.pkt # Genuine(call.req_id)
    /\ \A i \in 1..Len(inbox) : inbox[i] # Genuine(call.req_id)
    /\ Len(inbox) < MaxInbox
    /\ inbox' = Append(inbox, Genuine(call.req_id))
    /\ UNCHANGED <<session, cfg, req_id, ids, call, pc, collector, helper>>

\* ------------------------------------------------------- specification
\* The session right after SyncSession::new, built from configuration c.
Constructed(c) ==
    LET s == new(c.destination, c.community, c.timeout, c.req_id)
    IN  /\ cfg = c
        /\ destination = s.destination
        /\ socket = s.socket
        /\ community = s.community
        /\ req_id = s.req_id
        /\ inbox = <<>>
        /\ ids = <<>>
        /\ call = NoCall
        /\ pc = "idle"
        /\ bsock = NoSocket
        /\ window = 0
        /\ elapsed = 0
        /\ vec1 = <<>>

Init ==
    /\ \E c \in Configs : Constructed(c)
    /\ oid = <<>>
    /\ oid_pieces = <<>>
    /\ oid_result = OidPending

Next ==
    \/ get
    \/ getnext
    \/ getbulk
    \/ set
    \/ get_all_responses
    \/ Tick
    \/ Deliver

Spec == Init /\ [][Next]_vars

\* The clock advances, and a receive on the broadcast socket that gets
\* no datagram returns once the socket's read timeout has run out.
LiveSpec ==
    /\ Spec
    /\ WF_vars(Tick)
    /\ WF_vars(GarRecv(NoPacket, TRUE))

\* ------------------------------------- specification of the OID helper
\* The helper is a free function: it is applied once to each input string,
\* beside a session that is left alone.
OidInit ==
    /\ \E d \in Destinations : Constructed(builder(d))
    /\ \E ps \in OidInputs : oid_pieces = ps /\ oid = Dotted(ps)
    /\ oid_result = OidPending

Convert ==
    /\ oid_result = OidPending
    /\ oid_result' = oid_str_to_vec32(oid)
    /\ UNCHANGED <<session, cfg, req_id, ids, inbox, call, pc, collector,
                   oid, oid_pieces>>

OidNext == Convert

OidSpec == OidInit /\ [][OidNext]_vars

\* =============================================================== claims
RequestOps == {"get", "getnext", "getbulk", "set"}

\* r + k in signed 32-bit arithmetic, for 0 <= k, in closed form.
I32Plus(r, k) ==
    IF r <= MaxI32 - k THEN r + k ELSE MinI32 + (k - (MaxI32 - r) - 1)

\* The datagram the latest call read, and what its bytes carry.
Got == call.pkt # NoPacket
GotPdu == Got /\ call.pkt.data.asn = "ok"
GotResponse == GotPdu /\ call.pkt.data.mtype = "Response"
GotId == call.pkt.data.req_id = call.req_id
GotCommunity == call.pkt.data.community = community

\* C1: the k-th operation on a session seeded with r captures request-id
\* r+k-1 in wrapping i32 arithmetic, whatever the operations and their
\* outcomes; the counter already stands at r+k when the call has advanced
\* it, and every datagram the call sends carries the captured id.
C1_RequestIdSequence ==
    /\ \A k \in 1..Len(ids) : ids[k] = I32Plus(cfg.req_id, k - 1)
    /\ req_id = I32Plus(cfg.req_id, Len(ids))
    /\ call.op # "none" =>
           /\ call.req_id = ids[Len(ids)]
           /\ \A i \in 1..Len(call.sent) : call.sent[i].data.req_id = call.req_id

\* The counter has wrapped from 2^31-1 to -2^31 and a request went out
\* with the wrapped id.
C1_Witness ==
    /\ Len(ids) >= 2
    /\ ids[Len(ids) - 1] = MaxI32
    /\ ids[Len(ids)] = MinI32
    /\ call.sent # <<>>
    /\ call.sent[1].data.req_id = MinI32
    /\ req_id = MinI32 + 1

\* C2: a request operation returns Ok(pdu) only if the datagram this call
\* read parses, is a Response, carries the id this call issued and the
\* session's community; the pdu returned is the one decoded from it.
C2_OkOnlyIfCorrelated ==
    (call.op \in RequestOps /\ call.result.ok) =>
        /\ call.recvs = 1
        /\ GotResponse /\ GotId /\ GotCommunity
        /\ call.result.pdu = [message_type |-> "Response",
                              req_id |-> call.req_id,
                              community |-> community]

\* set has returned Ok for a reply that came from the other host.
C2_Witness ==
    /\ call.op = "set"
    /\ call.result.ok
    /\ call.pkt.src.ip = "other"

\* C3 as stated: any reply carrying another request-id than the issued
\* one makes the request operation fail with RequestIdMismatch.
C3_AsStated ==
    (call.op \in RequestOps /\ GotPdu /\ ~GotId) =>
        call.result = Err("RequestIdMismatch")

\* C3: a reply that is a Response PDU carrying another request-id than
\* the issued one makes the request operation fail with RequestIdMismatch,
\* whatever its community.
C3_ResponseWithWrongId ==
    (call.op \in RequestOps /\ GotResponse /\ ~GotId) =>
        call.result = Err("RequestIdMismatch")

\* set has read a Response with the previous id and a foreign community.
C3_Witness ==
    /\ call.op = "set"
    /\ GotResponse /\ ~GotId /\ ~GotCommunity
    /\ call.result.err = "RequestIdMismatch"

\* C4 as stated: any reply carrying another community than the session's
\* makes the request operation fail with CommunityMismatch.
C4_AsStated ==
    (call.op \in RequestOps /\ GotPdu /\ ~GotCommunity) =>
        call.result = Err("CommunityMismatch")

\* C4: a reply that is a Response PDU with the issued request-id and
\* another community than the session's makes the request operation fail
\* with CommunityMismatch.
C4_ResponseWithWrongCommunity ==
    (call.op \in RequestOps /\ GotResponse /\ GotId /\ ~GotCommunity) =>
        call.result = Err("CommunityMismatch")

\* set on a "public" session has read a Response with community "private".
C4_Witness ==
    /\ call.op = "set"
    /\ community = "public"
    /\ GotResponse /\ GotId
    /\ call.pkt.data.community = "private"
    /\ call.result.err = "CommunityMismatch"

C6_SendAndReceiveErrors ==
    (call.op \in RequestOps /\ call.built) =>
        /\ ~call.env.sendOk =>
               /\ call.result = Err("SendError")
               /\ call.sent = <<>> /\ call.recvs = 0 /\ call.decodes = 0
        /\ (call.env.sendOk /\ (~call.env.recvOk \/ ~Got)) =>
               /\ call.result = Err("ReceiveError")
               /\ Len(call.sent) = 1 /\ call.recvs = 1 /\ call.decodes = 0

\* set has sent its request and the receive timed out.
C6_Witness ==
    /\ call.op = "set"
    /\ call.built
    /\ call.env.sendOk /\ call.env.recvOk /\ ~Got
    /\ call.result.err = "ReceiveError"

GarReturnedFromLoop == call.op = "get_all_responses" /\ call.exit # "none"

\* C7: get_all_responses never returns ReceiveError; a socket that cannot
\* be created or configured gives SocketError, a failed send SendError,
\* and once the loop has been entered the call returns Ok, also when a
\* receive error ended the loop.
C7_NoReceiveError ==
    call.op = "get_all_responses" =>
        /\ call.result.err # "ReceiveError"
        /\ (~call.bindOk \/ call.window = 0) =>
               call.result = Err("SocketError")
        /\ (call.bindOk /\ call.window > 0 /\ ~call.env.sendOk) =>
               call.result = Err("SendError")
        /\ (call.bindOk /\ call.window > 0 /\ call.env.sendOk) =>
               (pc = "idle" <=> call.exit # "none")
        /\ call.exit # "none" =>
               /\ call.result.ok
               /\ Len(call.result.items) <= Len(call.collected)

\* A receive error ended the loop after a reply had been gathered, and
\* the call returned that reply.
C7_Witness ==
    /\ GarReturnedFromLoop
    /\ call.exit = "recv_error"
    /\ call.result.ok
    /\ Len(call.result.items) = 1

ValidReply(p) ==
    /\ p.data.asn = "ok"
    /\ p.data.mtype = "Response"
    /\ p.data.req_id = call.req_id
    /\ p.data.community = community

ExpectedItems ==
    LET sel == SelectSeq(call.collected, ValidReply)
    IN  [i \in 1..Len(sel) |->
            [address |-> sel[i].src.ip,
             data |-> [message_type |-> "Response",
                       req_id |-> sel[i].data.req_id,
                       community |-> sel[i].data.community]]]

\* C8: the list get_all_responses returns is the subsequence, in order of
\* receipt, of the collected datagrams that are a Response with the issued
\* id and the session's community, each with the IP of its own source;
\* the loop's vector holds exactly the collected datagrams.
C8_ItemsAreValidSubsequence ==
    /\ pc = "collect" =>
           vec1 = [i \in 1..Len(call.collected) |->
                      [address |-> call.collected[i].src.ip,
                       data |-> call.collected[i].data]]
    /\ GarReturnedFromLoop => call.result.items = ExpectedItems

\* Two valid replies from the same source were collected and both are in
\* the list returned.
C8_Witness ==
    /\ GarReturnedFromLoop
    /\ Len(call.collected) = 2
    /\ call.collected[1].src = call.collected[2].src
    /\ Len(call.result.items) = 2
    /\ call.result.items[1].address = call.result.items[2].address

\* C9: the primary socket keeps the read timeout given at construction
\* and its broadcast flag off, destination and community stay as
\* constructed; get_all_responses sends and receives on a socket of its
\* own that has broadcast on and the window as read timeout.
C9_PrimarySocketUntouched ==
    /\ socket = [open |-> TRUE, local |-> "0.0.0.0",
                 read_timeout |-> cfg.timeout, broadcast |-> FALSE]
    /\ destination = cfg.destination
    /\ community = IF cfg.community.some THEN cfg.community.c ELSE "public"
    /\ pc = "collect" =>
           /\ bsock = [open |-> TRUE, local |-> "0.0.0.0",
                       read_timeout |-> Some(window), broadcast |-> TRUE]
           /\ window = call.window
    /\ call.op = "get_all_responses" =>
           /\ call.rsock \in {"none", "broadcast"}
           /\ \A i \in 1..Len(call.sent) : call.sent[i].sock = "broadcast"

\* get_all_responses has run with window 2 on a session built with read
\* timeout 1, and returned from its loop.
C9_Witness ==
    /\ GarReturnedFromLoop
    /\ call.window = 2
    /\ cfg.timeout = Some(1)
    /\ socket.read_timeout = Some(1)
    /\ call.rsock = "broadcast"

\* C10: get_all_responses, once in its loop, returns: however many
\* replies arrive, a receive that completes when the elapsed time has
\* reached the window ends the loop.
C10_CollectionTerminates ==
    /\ (pc = "collect") ~> (pc = "idle")
    /\ [][(pc = "collect" /\ elapsed >= window /\ call' # call)
            => pc' = "idle"]_vars

\* The loop kept receiving replies and was ended by the window.
C10_Witness ==
    /\ GarReturnedFromLoop
    /\ call.exit = "window"
    /\ Len(call.collected) = 2

\* The first call on the session has been made and its request went out.
FirstRequestSent == Len(ids) = 1 /\ call.sent # <<>>

\* C11: a session built without options has community "public", seed 0
\* and a primary socket without read timeout, on which a receive with
\* nothing to read does not return; each of community(c), req_id(r) and
\* timeout(t) sets its own setting and leaves the others at the default;
\* the first request of the session carries the community and the seed
\* it was built with.
C11_BuilderSettings ==
    LET dflt == builder(cfg.destination)
    IN  /\ dflt = [destination |-> cfg.destination, community |-> NoCommunity,
                   timeout |-> None, req_id |-> 0]
        /\ community = IF cfg.community.some THEN cfg.community.c
                       ELSE "public"
        /\ socket.read_timeout = cfg.timeout
        /\ ids = <<>> => req_id = cfg.req_id
        /\ ids # <<>> => ids[1] = cfg.req_id
        /\ cfg = dflt =>
               /\ community = "public"
               /\ ~socket.read_timeout.some
               /\ Blocks(socket, <<>>, TRUE)
               /\ ids # <<>> => ids[1] = 0
        /\ cfg.community # dflt.community =>
               cfg.timeout = dflt.timeout /\ cfg.req_id = dflt.req_id
        /\ cfg.timeout # dflt.timeout =>
               cfg.community = dflt.community /\ cfg.req_id = dflt.req_id
        /\ cfg.req_id # dflt.req_id =>
               cfg.community = dflt.community /\ cfg.timeout = dflt.timeout
        /\ FirstRequestSent =>
               /\ call.sent[1].data.community = community
               /\ call.sent[1].data.req_id = cfg.req_id
        /\ (call.op \in RequestOps /\ ~cfg.timeout.some
              /\ call.recvs = 1 /\ call.env.recvOk) => Got

\* A session built with req_id(2^31-2) alone has sent its first request:
\* it carries that id and the default community, on a socket without
\* read timeout.
C11_Witness ==
    /\ FirstRequestSent
    /\ cfg.req_id = MaxI32 - 1
    /\ cfg.community = NoCommunity
    /\ call.sent[1].data.req_id = MaxI32 - 1
    /\ call.sent[1].data.community = "public"
    /\ ~socket.read_timeout.some

\* C14: the reply a request operation has read is checked in the order
\* decode, message type, request-id, community, and the first check that
\* fails gives the error: bytes that do not parse give their Asn* error;
\* a PDU that is not a Response gives AsnWrongType whatever its id and
\* community; a Response with another id gives RequestIdMismatch whatever
\* its community; CommunityMismatch is returned only for a Response with
\* the issued id.
C14_ValidationOrder ==
    (call.op \in RequestOps /\ Got) =>
        /\ ~GotPdu => call.result = Err(call.pkt.data.asn)
        /\ (GotPdu /\ ~GotResponse) => call.result = Err("AsnWrongType")
        /\ (GotResponse /\ ~GotId) => call.result = Err("RequestIdMismatch")
        /\ call.result.err = "CommunityMismatch" =>
               GotResponse /\ GotId /\ ~GotCommunity
        /\ call.result.err \in AsnErrors => ~GotPdu

\* set has read a PDU that is no Response and carries neither the issued
\* id nor the session's community, and returned AsnWrongType.
C14_Witness ==
    /\ call.op = "set"
    /\ GotPdu /\ ~GotResponse /\ ~GotId /\ ~GotCommunity
    /\ call.result = Err("AsnWrongType")

\* C15: a get, getnext, getbulk or set call is one exchange and ends in
\* Idle: it sends at most one datagram, only a built request, and attempts
\* at most one receive, exactly one when the datagram went out; it decodes
\* at most what it received and returns Ok only after decoding; it has
\* advanced the counter by one.  After a call that failed, the next call
\* starts from Idle with the next request-id.
C15_SingleExchange ==
    /\ [](call.op \in RequestOps =>
            /\ pc = "idle"
            /\ Len(call.sent) <= 1
            /\ call.recvs <= 1
            /\ call.recvs = 1 <=> Len(call.sent) = 1
            /\ Len(call.sent) = 1 <=> (call.built /\ call.env.sendOk)
            /\ call.decodes <= call.recvs
            /\ call.result.ok => call.decodes = 1
            /\ call.result # Pending
            /\ req_id = I32Plus(call.req_id, 1))
    /\ [][(call.op \in RequestOps /\ ~call.result.ok /\ ids' # ids) =>
             /\ pc = "idle"
             /\ call'.req_id = I32Plus(call.req_id, 1)
             /\ \A i \in 1..Len(call'.sent) :
                    call'.sent[i].data.req_id = call'.req_id]_vars

\* getbulk has failed at validation after one send and one receive, the
\* session is idle, and a get that succeeds can follow.
C15_Witness ==
    /\ call.op = "getbulk"
    /\ call.result = Err("CommunityMismatch")
    /\ Len(call.sent) = 1 /\ call.recvs = 1
    /\ pc = "idle"
    /\ ENABLED (get /\ call'.result.ok)

\* C16: get_all_responses sends one datagram and then receives in a loop.
\* A receive that completes while the elapsed time is below the window
\* either fails, which ends the loop at once, or gives a datagram, which
\* is kept; a receive that completes when the elapsed time has reached
\* the window ends the loop and its datagram is not kept.  Everything
\* kept is handed to the decoder.
C16_CollectionLoop ==
    /\ [](call.op = "get_all_responses" =>
            /\ (pc = "collect" \/ call.exit # "none") => Len(call.sent) = 1
            /\ pc = "collect" =>
                   /\ call.recvs = Len(call.collected)
                   /\ Len(vec1) = Len(call.collected)
            /\ call.exit # "none" =>
                   /\ call.recvs = Len(call.collected) + 1
                   /\ call.decodes = Len(call.collected)
                   /\ call.exit = "window" => call.left = 0
                   /\ call.left > 0 => call.exit = "recv_error")
    /\ [][(pc = "collect" /\ call' # call) =>
             IF pc' = "idle"
             THEN /\ call'.collected = call.collected
                  /\ call'.exit \in {"window", "recv_error"}
                  /\ elapsed < window => call'.exit = "recv_error"
             ELSE /\ elapsed < window
                  /\ Len(call'.collected) = Len(call.collected) + 1
                  /\ SubSeq(call'.collected, 1, Len(call.collected))
                         = call.collected
                  /\ call'.collected[Len(call'.collected)] # NoPacket]_vars

\* A receive error ended the loop while time was left in the window, and
\* the reply gathered before it was decoded and returned.
C16_Witness ==
    /\ GarReturnedFromLoop
    /\ call.exit = "recv_error"
    /\ call.left > 0
    /\ Len(call.collected) = 1
    /\ call.decodes = 1
    /\ Len(call.result.items) = 1

\* The request-ids captured by the calls before the latest one.
EarlierIds == { ids[k] : k \in 1..(Len(ids) - 1) }

\* C17: the ids of one session are pairwise distinct (fewer than 2^32
\* calls), and a Response carrying the id of an earlier call is never the
\* result of a later request operation: that operation fails with
\* RequestIdMismatch after its one receive.  A request operation whose
\* receive succeeds reads the datagram at the head of the socket's queue
\* and leaves everything behind it queued, the reply to its own request
\* included.
C17_StaleReplyRejected ==
    /\ [](/\ \A j, k \in 1..Len(ids) : ids[j] = ids[k] => j = k
          /\ (call.op \in RequestOps /\ GotResponse
                /\ call.pkt.data.req_id \in EarlierIds) =>
                 /\ call.result = Err("RequestIdMismatch")
                 /\ call.recvs = 1
          /\ (call.op \in RequestOps /\ call.result.ok) =>
                 call.result.pdu.req_id \notin EarlierIds)
    /\ [][(ids' # ids /\ call'.op \in RequestOps /\ inbox # <<>>
             /\ call'.recvs > 0 /\ call'.env.recvOk) =>
               /\ call'.pkt = Head(inbox)
               /\ call'.recvs = 1
               /\ inbox' = Arrive(Tail(inbox), call'.env.reply)]_vars

\* getnext has read the late reply to the call before it and failed,
\* while the reply to its own request is still queued.
C17_Witness ==
    /\ call.op = "getnext"
    /\ Len(ids) >= 2
    /\ call.pkt = Genuine(ids[Len(ids) - 1])
    /\ call.result = Err("RequestIdMismatch")
    /\ call.recvs = 1
    /\ inbox = <<Genuine(call.req_id)>>

\* The request a call of op builds.
BuildOf(op, arg, rid) ==
    CASE op = "get"     -> build_get(community, rid)
      [] op = "getnext" -> build_getnext(community, rid)
      [] op = "getbulk" -> build_getbulk(community, rid)
      [] op = "set"     -> build_set(community, rid, arg)

\* What the latest call would have done and returned had the reply it
\* read come from source s, all else equal; for a call that found the
\* socket's queue empty, in a state where it is empty again.
FromSource(s) ==
    LET b   == BuildOf(call.op, call.arg, call.req_id)
        net == call.env
        sr  == send_and_recv(b.data, net.sendOk,
                             [net.reply EXCEPT !.src = s], net.recvOk)
    IN  Outcome(call.op, call.arg, call.req_id, b, sr)

\* C18: what a request operation returns is decided by the bytes of the
\* datagram it read, not by where the datagram came from: a Response with
\* the issued id and the session's community is accepted from any source,
\* and the same reply from any other source would have given the same
\* result after the same send and receive.
C18_SourceIndependent ==
    (call.op \in RequestOps /\ Got) =>
        /\ call.result
               = Validate(call.op, call.req_id, community, call.pkt.data)
        /\ (GotResponse /\ GotId /\ GotCommunity) => call.result.ok
        /\ (call.pkt = call.env.reply /\ inbox = <<>>) =>
               \A s \in Sources :
                   LET other == FromSource(s)
                   IN  /\ other.pkt = [call.pkt EXCEPT !.src = s]
                       /\ other.result = call.result
                       /\ other.sent = call.sent
                       /\ other.recvs = call.recvs

\* get has accepted a reply that came from the other host.
C18_Witness ==
    /\ call.op = "get"
    /\ call.pkt = call.env.reply
    /\ inbox = <<>>
    /\ call.pkt.src.ip = "other"
    /\ call.pkt.src.ip # destination.ip
    /\ GotResponse /\ GotId /\ GotCommunity
    /\ call.result.ok

\* ------------------------------------------------------- OID helper
\* oid_str_to_vec32 has returned.
Applied == oid_result # OidPending

\* The pieces of the input after its optional single leading dot.
Components ==
    IF Len(oid_pieces) > 1 /\ oid_pieces[1].kind = "empty"
    THEN Tail(oid_pieces)
    ELSE oid_pieces

Values(ps) == [i \in 1..Len(ps) |-> ps[i].val]

WithTrailingZero(v) == IF v[Len(v)] = U32(0) THEN v ELSE Append(v, U32(0))

Oid1360 == <<U32(1), U32(3), U32(6), U32(0)>>

\* C12: for a dotted string of decimal u32 numerals, with or without one
\* leading dot, oid_str_to_vec32 returns the numbers in order, with one 0
\* appended exactly when the last number is not 0; every successful
\* result ends with 0; "1.3.6", ".1.3.6" and "1.3.6.0" give [1,3,6,0].
C12_DottedDecimal ==
    Applied =>
        /\ (\A i \in 1..Len(Components) : Components[i].kind = "digits") =>
               oid_result = OidOk(WithTrailingZero(Values(Components)))
        /\ oid_result.ok =>
               /\ oid_result.vec # <<>>
               /\ oid_result.vec[Len(oid_result.vec)] = U32(0)
        /\ oid \in { <<"1", ".", "3", ".", "6">>,
                     <<".", "1", ".", "3", ".", "6">>,
                     <<"1", ".", "3", ".", "6", ".", "0">> } =>
               oid_result = OidOk(Oid1360)

\* "1.3.6.0", which already ends with 0, was converted to [1,3,6,0].
C12_Witness ==
    /\ Applied
    /\ oid = <<"1", ".", "3", ".", "6", ".", "0">>
    /\ oid_result = OidOk(Oid1360)

\* A piece that is no u32: empty, not a number, negative, or too large.
Malformed(p) == p.kind \in {"empty", "invalid", "negative", "toobig"}

\* C13: when a piece after the optional single leading dot is empty, not
\* a decimal number, or outside the u32 range, oid_str_to_vec32 returns
\* Err with a message and no sub-identifiers; so for a trailing dot, a
\* doubled dot, two leading dots and the empty string.
C13_MalformedIsErr ==
    Applied =>
        /\ (\E i \in 1..Len(Components) : Malformed(Components[i])) =>
               /\ ~oid_result.ok
               /\ oid_result.vec = <<>>
               /\ oid_result.err \in
                      { "cannot parse integer from empty string",
                        "invalid digit found in string",
                        "number too large to fit in target type" }
        /\ oid \in { <<"1", ".", "3", ".", "6", ".">>,
                     <<"1", ".", ".", "0">>,
                     <<".", ".", "1">>,
                     <<>> } =>
               ~oid_result.ok

\* "1.3.6." was rejected for its empty last piece.
C13_Witness ==
    /\ Applied
    /\ oid = <<"1", ".", "3", ".", "6", ".">>
    /\ oid_result = OidErr("cannot parse integer from empty string")

\* C19: every OID oid_str_to_vec32 returns has at least 2 sub-identifiers.
C19_AtLeastTwoSubIds ==
    (Applied /\ oid_result.ok) => Len(oid_result.vec) >= 2

====
